---- MODULE Spec2Model ----
(***************************************************************************)
(* A model of lib/client/client.go: the teleport client's connection to a  *)
(* node through the proxy (ProxyClient.ConnectToNode), the choice of the   *)
(* site (ProxyClient.getSite), the interactive session with its terminal   *)
(* resize loop (newSession, NodeClient.Shell,                              *)
(* NodeSession.updateTerminalSize), the file transfer (NodeClient.scp)     *)
(* and the port forwarding relay (NodeClient.listenAndForward).            *)
(*                                                                         *)
(* The parts share no state in the model, so each has its own              *)
(* specification (ConnectSpec, SiteSpec, SessionSpec, ScpSpec,             *)
(* ForwardSpec); a part's specification leaves the variables of the other  *)
(* parts unchanged.                                                        *)
(***************************************************************************)
EXTENDS Integers, Sequences, FiniteSets, TLC

\* ------------------------------------------------------------------ bounds
\* longest node address, in characters
MaxAddrLen == 3
\* most authentication methods configured on a ProxyClient
MaxMethods == 3
\* most window-size-changed signals raised from outside the resize loop
MaxSignals == 2
\* most changes of the session's terminal parameters by other parties
MaxRemote == 1
\* most connections the forwarding listener accepts
MaxConns == 2

\* ------------------------------------------------------------------ strings
\* A string is a sequence of one-character strings.
AddrChars == {"n", "c", "@"}

Users == {"root", "alice"}

RECURSIVE StringsUpTo(_)
StringsUpTo(n) ==
    IF n = 0 THEN {<<>>}
    ELSE LET shorter == StringsUpTo(n - 1)
         IN  shorter \cup {Append(s, ch) : s \in {t \in shorter : Len(t) = n - 1}, ch \in AddrChars}

\* strings.Split(s, sep) for a one-character separator: the substrings
\* between the separators, in order; a string with no separator gives <<s>>
RECURSIVE SplitFrom(_, _, _, _)
SplitFrom(s, sep, i, cur) ==
    IF i > Len(s) THEN <<cur>>
    ELSE IF s[i] = sep THEN <<cur>> \o SplitFrom(s, sep, i + 1, <<>>)
    ELSE SplitFrom(s, sep, i + 1, Append(cur, s[i]))

Split(s, sep) == SplitFrom(s, sep, 1, <<>>)

VARIABLES
    \* ---- ProxyClient.ConnectToNode
    nodeAddress,    \* the nodeAddress argument
    user,           \* the user argument
    authOutcome,    \* proxy.authMethods: per method, how the node's handshake answers it
    cpc,            \* position in ConnectToNode
    idx,            \* index of the loop's current authMethod (1-based)
    e,              \* the local variable e
    proxySessions,  \* per attempt made so far, its proxySession: "open" or "closed"
    attempted,      \* the methods handed to ssh.NewClientConn, in time order
    subsystemReply, \* the relay's answer to the latest "proxy:" subsystem request
    stderrDrained,  \* printErrors ran (the deferred drain of proxyErr)
    connResult      \* what ConnectToNode returned; NoResult before it returns

VARIABLES
    \* ---- newSession, NodeClient.Shell, NodeSession.updateTerminalSize
    joinSession,    \* newSession's joinSession argument (NoSession: nil)
    envArg,         \* newSession's env argument, a map or nil
    localEnv,       \* the local process environment: LANG and LANGUAGE ("": unset)
    termSize,       \* the size of the local terminal (file descriptor 0)
    spc,            \* how far the session's caller is: newSession, then Shell
    ns,             \* the NodeSession: id, env, attachedTerm, terminalSize
    serverSession,  \* ns.serverSession: "none", "open" or "closed"
    setenvCalls,    \* the Setenv requests made on the server session, in order
    stdout,         \* what was written to os.Stdout, one write per element
    shellResult,    \* what Shell returned: "none" (not yet), "pipe" or "error"
    closer,         \* the CloseBroadcaster: "none", "open" or "closed"
    remoteParams,   \* the session's TerminalParams as the auth server reports them
    lpc,            \* updateTerminalSize: "off", "init", "select", "exited", "panicked"
    currentSize,    \* its local variable currentSize
    prevSess,       \* its local variable prevSess (NoSession: nil)
    siteClient,     \* its local variable siteClient: "none", "ok" or "nil"
    sigC,           \* signals queued in sigC (capacity 1)
    sent,           \* the window-change requests sent, in order
    nSignals,       \* window-size-changed signals raised from outside so far
    nRemote         \* changes of remoteParams by other parties so far

VARIABLES
    \* ---- NodeClient.listenAndForward
    apc,            \* the accept loop: "accept", or "done" once it has returned
    socket,         \* the listener: "open" or "closed"
    nodeClient,     \* the NodeClient the relay dials through: "open" or "closed"
    fpc,            \* per connection, the position of its proxyConnection task
    attempt,        \* per connection, the dial loop's variable attempt
    dials,          \* per connection, the calls of client.Client.Dial so far
    slept,          \* per connection, the milliseconds slept between dials
    dialErr,        \* per connection, whether err of the last Dial is non-nil
    incoming,       \* per connection, the accepted connection: "none", "open", "closed"
    conn,           \* per connection, the dialed connection: "none", "open", "closed"
    copyDown,       \* per connection, io.Copy(incoming, conn): "off", "running", or how
                    \* it returned: "eof" (conn ended) or "failed" (a write failed)
    copyUp,         \* per connection, io.Copy(conn, incoming): likewise
    doneC           \* per connection, the values sent on doneC

connectVars == <<nodeAddress, user, authOutcome, cpc, idx, e, proxySessions,
                 attempted, subsystemReply, stderrDrained, connResult>>

sessionVars == <<joinSession, envArg, localEnv, termSize, spc, ns, serverSession,
                 setenvCalls, stdout, shellResult, closer, remoteParams, lpc,
                 currentSize, prevSess, siteClient, sigC, sent, nSignals,
                 nRemote>>

forwardVars == <<apc, socket, nodeClient, fpc, attempt, dials, slept, dialErr,
                 incoming, conn, copyDown, copyUp, doneC>>

VARIABLES
    \* ---- ProxyClient.getSite, ProxyClient.GetSites
    siteName,       \* proxy.siteName ("": none requested)
    listed,         \* the records the proxy's "proxysites" subsystem has to list
    fetchOutcome,   \* how GetSites will end: "ok" or the step of it that fails
    gpc,            \* position in getSite: "fetch", "select", "done"
    sites,          \* getSite's local variable sites
    sitesErr,       \* getSite's local variable err after GetSites ("": nil)
    siteResult      \* what getSite returned; NoSiteResult before it returns

VARIABLES
    \* ---- NodeClient.Upload, NodeClient.Download, NodeClient.scp
    direction,      \* "upload" or "download"
    isDir,          \* whether the source is a directory
    setupOutcome,   \* "ok", or the step of scp's set-up that fails
    executeResult,  \* what scpCommand.Execute will return ("": nil)
    runResult,      \* what session.Run will return ("": nil)
    shellCmd,       \* the command line handed to session.Run, word by word
    mpc,            \* position of scp itself
    tpc,            \* position of the goroutine that runs scpCommand.Execute
    scpErr,         \* scp's variable err, shared with the goroutine ("": nil)
    errSeen,        \* the value of err that line 603 read
    runErr,         \* scp's variable runErr
    stdinPipe,      \* the session's stdin pipe: "none", "open" or "closed"
    scpSession,     \* the session: "none", "open" or "closed"
    closeC,         \* the channel closeC: "open" or "closed"
    finished,       \* which of the two completed, in time order: "task", "run"
    scpResult       \* what scp returned; "none" before it returns ("": nil)

siteVars == <<siteName, listed, fetchOutcome, gpc, sites, sitesErr, siteResult>>

scpVars == <<direction, isDir, setupOutcome, executeResult, runResult, shellCmd,
             mpc, tpc, scpErr, errSeen, runErr, stdinPipe, scpSession, closeC,
             finished, scpResult>>

vars == <<connectVars, sessionVars, forwardVars, siteVars, scpVars>>

\* ------------------------------------------------------------------ values
NoResult == [kind |-> "none", method |-> 0, user |-> "", addr |-> <<>>, cause |-> 0]

ErrorOf(kind, method) ==
    [kind |-> kind, method |-> method, user |-> "", addr |-> <<>>, cause |-> 0]

\* e := trace.Errorf("unknown Error")
UnknownError == ErrorOf("Unknown", 0)

HandshakeOutcomes == {"ok", "AuthRejected", "TransportError"}

\* utils.IsHandshakeFailedError: the negotiation failed because the method
\* was rejected (credential mismatch), not for a transport or protocol error
IsHandshakeFailedError(err) == err.kind = "AuthRejected"

\* &NodeClient{Client: client, Proxy: proxy}
NodeClientOf(method) ==
    [kind |-> "NodeClient", method |-> method, user |-> "", addr |-> <<>>, cause |-> 0]

\* a slip of the index: the first part instead of the last
SiteNameFirstPart(addr) ==
    LET parts == Split(addr, "@") IN parts[1]

\* parts := strings.Split(nodeAddress, "@"); siteName := parts[len(parts)-1]
SiteNameOf(addr) ==
    LET parts == Split(addr, "@") IN parts[Len(parts)]

\* trace.Errorf("Failed connecting to cluster %v: %v", siteName, err)
RoutingErrorOf(addr, method) ==
    [kind |-> "RoutingError", method |-> method, user |-> "",
     addr |-> SiteNameOf(addr), cause |-> 0]

\* the site name left in: the whole node address is reported
DeniedAddrWhole(addr) == addr

\* parts := strings.Split(nodeAddress, "@"); the address reported is parts[0]
DeniedAddrOf(addr) ==
    LET parts == Split(addr, "@") IN parts[1]

\* trace.Errorf(`access denied to login "%v" when connecting to %v: %v`, user, parts[0], e)
AccessDeniedOf(u, addr, err) ==
    [kind |-> "AccessDenied", method |-> 0, user |-> u,
     addr |-> DeniedAddrOf(addr), cause |-> err.method]

\* ------------------------------------------------------------------ session values
\* term.Winsize
Winsize(w, h) == [Width |-> w, Height |-> h]

\* &term.Winsize{Width: 80, Height: 25}
DefaultSize == Winsize(80, 25)

\* the Winsize term.GetWinsize hands back with an error
ZeroSize == Winsize(0, 0)

\* the terminal sizes of the model
Sizes == {Winsize(80, 25), Winsize(120, 40)}

\* session.TerminalParams
TerminalParams(w, h) == [W |-> w, H |-> h]

\* TerminalParams.Winsize(): the parameters as a term.Winsize, whose fields are uint16
ParamsWinsize(p) == Winsize(p.W % 65536, p.H % 65536)

ParamsOf(ws) == TerminalParams(ws.Width, ws.Height)

\* a nil *session.Session
NoSession == [ID |-> "", TerminalParams |-> TerminalParams(0, 0)]

SessionOf(id, p) == [ID |-> id, TerminalParams |-> p]

\* the identifiers of sessions that exist already
JoinIDs == {"joined"}

\* the identifiers session.NewID() may generate
FreshIDs == {"fresh"}

\* %d of a non-negative integer: its decimal digits
Digit(d) == <<"0", "1", "2", "3", "4", "5", "6", "7", "8", "9">>[d + 1]

RECURSIVE Dec(_)
Dec(n) == IF n < 10 THEN <<Digit(n)>> ELSE Append(Dec(n \div 10), Digit(n % 10))

\* width and height swapped in the format's arguments
ResizeEscapeSwapped(ws) ==
    <<"ESC", "[", "8", ";">> \o Dec(ws.Width) \o <<";">> \o Dec(ws.Height) \o <<"t">>

\* fmt.Sprintf("\x1b[8;%d;%dt", Height, Width)
ResizeEscape(ws) ==
    <<"ESC", "[", "8", ";">> \o Dec(ws.Height) \o <<";">> \o Dec(ws.Width) \o <<"t">>

\* sshutils.SessionEnvVar
SessionEnvVar == "TELEPORT_SESSION"

\* the keys a caller passes in env
CallerKeys == {"TERM"}

EmptyMap == [k \in {} |-> ""]

\* a nil map[string]string
NilEnv == [isNil |-> TRUE, kv |-> EmptyMap]

MapEnv(kv) == [isNil |-> FALSE, kv |-> kv]

EnvArgs == {NilEnv} \cup {MapEnv(kv) : kv \in UNION {[S -> {"xterm"}] : S \in SUBSET CallerKeys}}

\* m[k] = v on a map
MapPut(m, k, v) == [x \in DOMAIN m \cup {k} |-> IF x = k THEN v ELSE m[x]]

\* the orders in which a range over a map may visit its keys
RangeOrders(m) ==
    LET keys == DOMAIN m
        n == Cardinality(keys)
    IN  {o \in [1..n -> keys] : \A i, j \in 1..n : i # j => o[i] # o[j]}

\* evarsToPass := []string{"LANG", "LANGUAGE"}
EvarsToPass == <<"LANG", "LANGUAGE">>

\* the Setenv calls of the loop over evarsToPass: those set locally, in order
RECURSIVE LangCalls(_, _)
LangCalls(env, i) ==
    IF i > Len(EvarsToPass) THEN <<>>
    ELSE (IF env[EvarsToPass[i]] # "" THEN <<<<EvarsToPass[i], env[EvarsToPass[i]]>>>> ELSE <<>>)
         \o LangCalls(env, i + 1)

NoNodeSession ==
    [id |-> "", env |-> NilEnv, attachedTerm |-> FALSE, terminalSize |-> ZeroSize]

\* the state of the session part before newSession is called; the
\* specifications of the other parts stay in it
SessionIdle ==
    /\ joinSession = NoSession
    /\ envArg = NilEnv
    /\ localEnv = [k \in {"LANG", "LANGUAGE"} |-> ""]
    /\ termSize = DefaultSize
    /\ spc = "start"
    /\ ns = NoNodeSession
    /\ serverSession = "none"
    /\ setenvCalls = <<>>
    /\ stdout = <<>>
    /\ shellResult = "none"
    /\ closer = "none"
    /\ remoteParams = TerminalParams(0, 0)
    /\ lpc = "off"
    /\ currentSize = ZeroSize
    /\ prevSess = NoSession
    /\ siteClient = "none"
    /\ sigC = 0
    /\ sent = <<>>
    /\ nSignals = 0
    /\ nRemote = 0

Conns == 1..MaxConns

\* the state of the forwarding part when listenAndForward is called: the
\* listener is open and no connection has been accepted
ForwardIdle ==
    /\ apc = "accept"
    /\ socket = "open"
    /\ nodeClient = "open"
    /\ fpc = [c \in Conns |-> "idle"]
    /\ attempt = [c \in Conns |-> 0]
    /\ dials = [c \in Conns |-> 0]
    /\ slept = [c \in Conns |-> 0]
    /\ dialErr = [c \in Conns |-> FALSE]
    /\ incoming = [c \in Conns |-> "none"]
    /\ conn = [c \in Conns |-> "none"]
    /\ copyDown = [c \in Conns |-> "off"]
    /\ copyUp = [c \in Conns |-> "off"]
    /\ doneC = [c \in Conns |-> 0]

NoSiteResult == [kind |-> "none"]

\* the state of the site part before getSite is called
SiteIdle ==
    /\ siteName = ""
    /\ listed = <<>>
    /\ fetchOutcome = "ok"
    /\ gpc = "fetch"
    /\ sites = <<>>
    /\ sitesErr = ""
    /\ siteResult = NoSiteResult

\* the state of the transfer part before Upload or Download is called
ScpIdle ==
    /\ direction = "upload"
    /\ isDir = FALSE
    /\ setupOutcome = "ok"
    /\ executeResult = ""
    /\ runResult = ""
    /\ shellCmd = <<>>
    /\ mpc = "start"
    /\ tpc = "off"
    /\ scpErr = ""
    /\ errSeen = ""
    /\ runErr = ""
    /\ stdinPipe = "none"
    /\ scpSession = "none"
    /\ closeC = "open"
    /\ finished = <<>>
    /\ scpResult = "none"

\* the state of the connect part before ConnectToNode is called
ConnectIdle ==
    /\ nodeAddress = <<"n">>
    /\ user = "root"
    /\ authOutcome = <<>>
    /\ cpc = "parse"
    /\ idx = 1
    /\ e = UnknownError
    /\ proxySessions = <<>>
    /\ attempted = <<>>
    /\ subsystemReply = "none"
    /\ stderrDrained = FALSE
    /\ connResult = NoResult

\* ------------------------------------------------------------------ ConnectToNode
ConnectInit ==
    /\ SessionIdle
    /\ ForwardIdle
    /\ SiteIdle
    /\ ScpIdle
    /\ nodeAddress \in StringsUpTo(MaxAddrLen) \ {<<>>}
    /\ user \in Users
    /\ \E n \in 0..MaxMethods : authOutcome \in [1..n -> HandshakeOutcomes]
    /\ cpc = "parse"
    /\ idx = 1
    /\ e = UnknownError
    /\ proxySessions = <<>>
    /\ attempted = <<>>
    /\ subsystemReply = "none"
    /\ stderrDrained = FALSE
    /\ connResult = NoResult

Return(r) ==
    /\ connResult' = r
    /\ cpc' = "done"

\* a loop that gives up after its first method (break for continue)
LoopHeadFirstOnly(i) == IF i <= 1 /\ i <= Len(authOutcome) THEN "newSession" ELSE "afterLoop"

\* the head of the range loop: the next method, or the code after the loop
LoopHead(i) == IF i <= Len(authOutcome) THEN "newSession" ELSE "afterLoop"

\* utils.ParseAddr of the proxy address and of the node address
ParseAddrs ==
    /\ cpc = "parse"
    /\ \E ok \in BOOLEAN :
         IF ok
         THEN /\ cpc' = LoopHead(1)
              /\ UNCHANGED connResult
         ELSE Return(ErrorOf("BadParameter", 0))
    /\ UNCHANGED <<nodeAddress, user, authOutcome, idx, e, proxySessions,
                   attempted, subsystemReply, stderrDrained>>

\* proxy.Client.NewSession()
NewProxySession ==
    /\ cpc = "newSession"
    /\ \E ok \in BOOLEAN :
         IF ok
         THEN /\ proxySessions' = Append(proxySessions, "open")
              /\ cpc' = "pipes"
              /\ UNCHANGED connResult
         ELSE /\ Return(ErrorOf("SessionError", idx))
              /\ UNCHANGED proxySessions
    /\ UNCHANGED <<nodeAddress, user, authOutcome, idx, e, attempted,
                   subsystemReply, stderrDrained>>

\* proxySession.StdinPipe(), StdoutPipe(), StderrPipe()
OpenPipes ==
    /\ cpc = "pipes"
    /\ \E ok \in BOOLEAN :
         IF ok
         THEN /\ cpc' = "subsystem"
              /\ UNCHANGED connResult
         ELSE Return(ErrorOf("PipeError", idx))
    /\ UNCHANGED <<nodeAddress, user, authOutcome, idx, e, proxySessions,
                   attempted, subsystemReply, stderrDrained>>

\* proxySession.RequestSubsystem("proxy:" + nodeAddress)
RequestProxySubsystem ==
    /\ cpc = "subsystem"
    /\ \E ok \in BOOLEAN :
         IF ok
         THEN /\ subsystemReply' = "ok"
              /\ cpc' = "handshake"
              /\ UNCHANGED <<connResult, stderrDrained>>
         ELSE /\ subsystemReply' = "rejected"
              /\ Return(RoutingErrorOf(nodeAddress, idx))
              /\ stderrDrained' = TRUE
    /\ UNCHANGED <<nodeAddress, user, authOutcome, idx, e, proxySessions, attempted>>

\* a loop that goes on to the next method after any failed handshake
ContinuesAfterAny(err) == TRUE

\* what the loop does with a failed ssh.NewClientConn: TRUE to go on to the
\* next method, FALSE to return the error
ContinuesAfter(err) == IsHandshakeFailedError(err)

\* ssh.NewClientConn over the pipe with Auth: []ssh.AuthMethod{authMethod}
Handshake ==
    /\ cpc = "handshake"
    /\ attempted' = Append(attempted, idx)
    /\ LET outcome == authOutcome[idx]
           err == ErrorOf(outcome, idx)
       IN  IF outcome = "ok"
           THEN /\ Return(NodeClientOf(idx))
                /\ UNCHANGED <<idx, e, proxySessions>>
           ELSE IF ContinuesAfter(err)
           THEN /\ e' = err
                /\ proxySessions' = [proxySessions EXCEPT ![Len(proxySessions)] = "closed"]
                /\ idx' = idx + 1
                /\ cpc' = LoopHead(idx + 1)
                /\ UNCHANGED connResult
           ELSE /\ Return(err)
                /\ UNCHANGED <<idx, e, proxySessions>>
    /\ UNCHANGED <<nodeAddress, user, authOutcome, subsystemReply, stderrDrained>>

\* the code after the loop: every method was rejected, or there was none
AfterLoop ==
    /\ cpc = "afterLoop"
    /\ IF IsHandshakeFailedError(e)
       THEN Return(AccessDeniedOf(user, nodeAddress, e))
       ELSE Return(e)
    /\ UNCHANGED <<nodeAddress, user, authOutcome, idx, e, proxySessions,
                   attempted, subsystemReply, stderrDrained>>

ConnectNext ==
    \/ ParseAddrs /\ UNCHANGED <<sessionVars, forwardVars, siteVars, scpVars>>
    \/ NewProxySession /\ UNCHANGED <<sessionVars, forwardVars, siteVars, scpVars>>
    \/ OpenPipes /\ UNCHANGED <<sessionVars, forwardVars, siteVars, scpVars>>
    \/ RequestProxySubsystem /\ UNCHANGED <<sessionVars, forwardVars, siteVars, scpVars>>
    \/ Handshake /\ UNCHANGED <<sessionVars, forwardVars, siteVars, scpVars>>
    \/ AfterLoop /\ UNCHANGED <<sessionVars, forwardVars, siteVars, scpVars>>

ConnectSpec == ConnectInit /\ [][ConnectNext]_vars

\* ------------------------------------------------------------------ claims about ConnectToNode
\* the sequence <<1, 2, ..., n>>
UpTo(n) == [i \in 1..n |-> i]

\* position of the first / last "@" of s, 0 when s has none
FirstAt(s) == IF \E i \in 1..Len(s) : s[i] = "@"
              THEN CHOOSE i \in 1..Len(s) : s[i] = "@" /\ \A j \in 1..(i - 1) : s[j] # "@"
              ELSE 0

LastAt(s) == IF \E i \in 1..Len(s) : s[i] = "@"
             THEN CHOOSE i \in 1..Len(s) : s[i] = "@" /\ \A j \in (i + 1)..Len(s) : s[j] # "@"
             ELSE 0

TextBeforeFirstAt(s) == IF FirstAt(s) = 0 THEN s ELSE SubSeq(s, 1, FirstAt(s) - 1)
TextAfterFirstAt(s) == IF FirstAt(s) = 0 THEN s ELSE SubSeq(s, FirstAt(s) + 1, Len(s))
TextAfterLastAt(s) == IF LastAt(s) = 0 THEN s ELSE SubSeq(s, LastAt(s) + 1, Len(s))

\* the call met no failure of the relay connection itself: the addresses
\* parsed, and every session, pipe and subsystem request was granted
NoRelayFailure ==
    connResult.kind \notin {"BadParameter", "SessionError", "PipeError", "RoutingError"}

\* method k is the first to succeed: it is accepted, every earlier one is rejected
FirstToSucceed(k) ==
    /\ k \in 1..Len(authOutcome)
    /\ authOutcome[k] = "ok"
    /\ \A j \in 1..(k - 1) : authOutcome[j] = "AuthRejected"

\* C1: the methods are handed to the handshake in configured order, one at a
\* time: when an attempt starts, every earlier attempt was rejected and its
\* session is closed; and when method k is the first to succeed (and the relay
\* grants every session), exactly the methods 1..k were attempted and the call
\* returns the NodeClient of method k, not an error.
C1_OrderedTrial ==
    /\ attempted = UpTo(Len(attempted))
    /\ Len(attempted) <= Len(proxySessions)
    /\ Len(proxySessions) <= Len(attempted) + 1
    /\ \A i \in 1..(Len(proxySessions) - 1) :
          /\ proxySessions[i] = "closed"
          /\ authOutcome[i] = "AuthRejected"
          /\ i \in 1..Len(attempted)
    /\ \A k \in 1..Len(authOutcome) :
          (cpc = "done" /\ FirstToSucceed(k) /\ NoRelayFailure)
             => /\ connResult = NodeClientOf(k)
                /\ attempted = UpTo(k)

C1_Witness ==
    /\ cpc = "done"
    /\ FirstToSucceed(2)
    /\ connResult = NodeClientOf(2)
    /\ attempted = <<1, 2>>
    /\ proxySessions = <<"closed", "open">>

\* C2: a failed handshake is followed by the next method exactly when it is a
\* credential rejection; any other handshake failure, and a failure to open
\* the session or its pipes, ends the call with that error, and no later
\* method is attempted.
C2_OnlyRejectionContinues ==
    /\ \A i \in 1..Len(attempted) :
          /\ authOutcome[i] = "AuthRejected"
                => /\ idx > i
                   /\ connResult.kind \notin {"AuthRejected", "NodeClient"} \/ connResult.method # i
          /\ authOutcome[i] = "TransportError"
                => /\ cpc = "done"
                   /\ connResult = ErrorOf("TransportError", i)
                   /\ Len(attempted) = i
    /\ connResult.kind \in {"SessionError", "PipeError"}
          => /\ cpc = "done"
             /\ attempted = UpTo(connResult.method - 1)
             /\ idx = connResult.method

C2_Witness ==
    /\ cpc = "done"
    /\ Len(authOutcome) > 2
    /\ authOutcome[1] = "AuthRejected"
    /\ connResult = ErrorOf("TransportError", 2)
    /\ attempted = <<1, 2>>

\* every configured method was tried and rejected
AllRejected ==
    /\ cpc = "done"
    /\ Len(authOutcome) > 0
    /\ attempted = UpTo(Len(authOutcome))
    /\ \A i \in 1..Len(authOutcome) : authOutcome[i] = "AuthRejected"

\* C3 as stated: when every method is rejected the call returns access denied,
\* naming the login user and the node address with the text up to and
\* including its "@" removed.
C3_AsStated ==
    AllRejected
       => /\ connResult.kind = "AccessDenied"
          /\ connResult.user = user
          /\ connResult.addr = TextAfterFirstAt(nodeAddress)

\* C3 amended: when every method is rejected the call returns access denied,
\* naming the login user and the node address with its site suffix removed:
\* the text before the first "@" of the address.
C3_DeniedNamesNode ==
    AllRejected
       => /\ connResult.kind = "AccessDenied"
          /\ connResult.user = user
          /\ connResult.addr = TextBeforeFirstAt(nodeAddress)
          /\ connResult.cause = Len(authOutcome)

C3_Witness ==
    /\ AllRejected
    /\ Len(authOutcome) = 2
    /\ nodeAddress = <<"n", "@", "c">>
    /\ connResult.kind = "AccessDenied"
    /\ connResult.addr = <<"n">>

\* C4: when the relay rejects the "proxy:<address>" subsystem request, on any
\* attempt, the call is over with a routing error (never access denied) that
\* names the text after the last "@" of the address, the method of that
\* attempt is never handed to the handshake, and no later method is attempted.
C4_RoutingError ==
    subsystemReply = "rejected"
       => /\ cpc = "done"
          /\ connResult.kind = "RoutingError"
          /\ connResult.addr = TextAfterLastAt(nodeAddress)
          /\ connResult.method = idx
          /\ attempted = UpTo(idx - 1)
          /\ stderrDrained

C4_Witness ==
    /\ subsystemReply = "rejected"
    /\ idx = 2
    /\ authOutcome[1] = "AuthRejected"
    /\ FirstAt(nodeAddress) # 0
    /\ FirstAt(nodeAddress) # LastAt(nodeAddress)
    /\ connResult.kind = "RoutingError"

\* ------------------------------------------------------------------ newSession
\* the map ranged over by "for key, val := range env": env is the argument,
\* which is ns.env (session variable included) unless the argument was nil
RangedEnv(arg, nsEnv) == IF arg.isNil THEN EmptyMap ELSE nsEnv

\* the Setenv calls of the loop over env, visiting its keys in order o
EnvCalls(m, o) == [i \in 1..Len(o) |-> <<o[i], m[o[i]]>>]

\* a join that generates an identifier all the same
SessionIDFresh(join, fresh) == fresh

\* ns.id: the joined session's ID, or session.NewID()
SessionID(join, fresh) == IF join # NoSession THEN join.ID ELSE fresh

\* ns.terminalSize when newSession returns
SessionSize(join, attached, winOk) ==
    IF join # NoSession THEN ParamsWinsize(join.TerminalParams)
    ELSE IF attached THEN (IF winOk THEN termSize ELSE ZeroSize)
    ELSE DefaultSize

SessionInit ==
    /\ ConnectIdle
    /\ ForwardIdle
    /\ SiteIdle
    /\ ScpIdle
    /\ joinSession \in {NoSession} \cup
          {SessionOf(id, ParamsOf(s)) : id \in JoinIDs, s \in Sizes}
    /\ envArg = MapEnv([k \in CallerKeys |-> "xterm"])
    /\ localEnv = [k \in {"LANG", "LANGUAGE"} |-> IF k = "LANG" THEN "C" ELSE ""]
    /\ termSize = Winsize(80, 25)
    /\ spc = "start"
    /\ ns = NoNodeSession
    /\ serverSession = "none"
    /\ setenvCalls = <<>>
    /\ stdout = <<>>
    /\ shellResult = "none"
    /\ closer = "none"
    /\ remoteParams = joinSession.TerminalParams
    /\ lpc = "off"
    /\ currentSize = ZeroSize
    /\ prevSess = NoSession
    /\ siteClient = "none"
    /\ sigC = 0
    /\ sent = <<>>
    /\ nSignals = 0
    /\ nRemote = 0

\* newSession(client, joinSession, env, attachedTerm)
NewSession ==
    /\ spc = "start"
    /\ \E attached, winOk, rawOk, setOk, sessOk \in BOOLEAN, fresh \in FreshIDs :
         LET id == SessionID(joinSession, fresh)
             size == SessionSize(joinSession, attached, winOk)
             joining == joinSession # NoSession
             nsEnv == MapPut(envArg.kv, SessionEnvVar, id)
             ranged == RangedEnv(envArg, nsEnv)
         IN  IF attached /\ ~rawOk
             THEN \* term.SetRawTerminal failed
                  /\ spc' = "failed"
                  /\ UNCHANGED <<ns, termSize, stdout, serverSession, setenvCalls>>
             ELSE /\ termSize' = IF joining /\ attached /\ setOk THEN size ELSE termSize
                  /\ stdout' = IF joining /\ attached
                               THEN Append(stdout, ResizeEscape(size))
                               ELSE stdout
                  /\ IF sessOk
                     THEN /\ ns' = [id |-> id, env |-> MapEnv(nsEnv),
                                    attachedTerm |-> attached, terminalSize |-> size]
                          /\ serverSession' = "open"
                          /\ \E o \in RangeOrders(ranged) :
                               setenvCalls' = LangCalls(localEnv, 1) \o EnvCalls(ranged, o)
                          /\ spc' = "created"
                     ELSE \* client.Client.NewSession failed
                          /\ spc' = "failed"
                          /\ UNCHANGED <<ns, serverSession, setenvCalls>>
    /\ UNCHANGED <<joinSession, envArg, localEnv, shellResult, closer, remoteParams,
                   lpc, currentSize, prevSess, siteClient, sigC, sent,
                   nSignals, nRemote>>

\* newSession alone, over every kind of env argument and local environment
LocalEnvs ==
    {[k \in {"LANG", "LANGUAGE"} |-> IF k = "LANG" THEN l ELSE ll] :
        l \in {"", "C"}, ll \in {"", "en"}}

CreateInit ==
    /\ ConnectIdle
    /\ ForwardIdle
    /\ SiteIdle
    /\ ScpIdle
    /\ joinSession \in {NoSession} \cup
          {SessionOf(id, ParamsOf(s)) : id \in JoinIDs, s \in Sizes}
    /\ envArg \in EnvArgs
    /\ localEnv \in LocalEnvs
    /\ termSize \in Sizes
    /\ spc = "start"
    /\ ns = NoNodeSession
    /\ serverSession = "none"
    /\ setenvCalls = <<>>
    /\ stdout = <<>>
    /\ shellResult = "none"
    /\ closer = "none"
    /\ remoteParams = joinSession.TerminalParams
    /\ lpc = "off"
    /\ currentSize = ZeroSize
    /\ prevSess = NoSession
    /\ siteClient = "none"
    /\ sigC = 0
    /\ sent = <<>>
    /\ nSignals = 0
    /\ nRemote = 0

CreateNext == NewSession /\ UNCHANGED <<connectVars, forwardVars, siteVars, scpVars>>

CreateSpec == CreateInit /\ [][CreateNext]_vars

\* ------------------------------------------------------------------ Shell
\* the program runs: it has not panicked
Alive == lpc # "panicked"

\* ns.allocateTerminal(): RequestPty, the three pipes, the closer, and
\* "go ns.updateTerminalSize(closer)" for an attached terminal
AllocateTerminal ==
    /\ spc = "created"
    /\ Alive
    /\ \E ok \in BOOLEAN :
         IF ok
         THEN /\ closer' = "open"
              /\ lpc' = IF ns.attachedTerm THEN "init" ELSE "off"
              /\ remoteParams' = IF joinSession = NoSession
                                 THEN ParamsOf(ns.terminalSize)
                                 ELSE remoteParams
              /\ spc' = "allocated"
         ELSE /\ spc' = "allocFailed"
              /\ UNCHANGED <<closer, lpc, remoteParams>>
    /\ UNCHANGED <<joinSession, envArg, localEnv, termSize, ns, serverSession,
                   setenvCalls, stdout, shellResult, currentSize, prevSess,
                   siteClient, sigC, sent, nSignals, nRemote>>

\* nc.serverSession.Shell() and Shell's return
StartShell ==
    /\ spc \in {"allocated", "allocFailed"}
    /\ Alive
    /\ \E ok \in BOOLEAN :
         shellResult' = IF ok /\ spc = "allocated" THEN "pipe" ELSE "error"
    /\ spc' = "shellDone"
    /\ UNCHANGED <<joinSession, envArg, localEnv, termSize, ns, serverSession,
                   setenvCalls, stdout, closer, remoteParams, lpc, currentSize,
                   prevSess, siteClient, sigC, sent, nSignals, nRemote>>

\* the caller closes the stream Shell returned: its closer is
\* utils.MultiCloser(writer, ns.serverSession, closer), which closes each
ClosePipe ==
    /\ shellResult = "pipe"
    /\ closer = "open"
    /\ Alive
    /\ closer' = "closed"
    /\ serverSession' = "closed"
    /\ UNCHANGED <<joinSession, envArg, localEnv, termSize, spc, ns, setenvCalls,
                   stdout, shellResult, remoteParams, lpc, currentSize, prevSess,
                   siteClient, sigC, sent, nSignals, nRemote>>

\* the server ends the session (the remote shell exits)
ServerCloses ==
    /\ spc = "shellDone"
    /\ shellResult = "pipe"
    /\ serverSession = "open"
    /\ Alive
    /\ serverSession' = "closed"
    /\ UNCHANGED <<joinSession, envArg, localEnv, termSize, spc, ns, setenvCalls,
                   stdout, shellResult, closer, remoteParams, lpc, currentSize,
                   prevSess, siteClient, sigC, sent, nSignals, nRemote>>

\* ------------------------------------------------------------------ the environment of the resize loop
\* sigC receives SIGWINCH from signal.Notify on
Subscribed == lpc \in {"connect", "select", "exited"}

\* the user resizes the local terminal; the kernel raises SIGWINCH
UserResize ==
    /\ spc \notin {"start", "failed"}
    /\ Alive
    /\ nSignals < MaxSignals
    /\ \E s \in Sizes \ {termSize} : termSize' = s
    /\ nSignals' = nSignals + 1
    /\ sigC' = IF Subscribed THEN 1 ELSE sigC
    /\ UNCHANGED <<joinSession, envArg, localEnv, spc, ns, serverSession, setenvCalls,
                   stdout, shellResult, closer, remoteParams, lpc, currentSize,
                   prevSess, siteClient, sent, nRemote>>

\* SIGWINCH arrives with the terminal size as it was
SpuriousSignal ==
    /\ Subscribed
    /\ Alive
    /\ nSignals < MaxSignals
    /\ nSignals' = nSignals + 1
    /\ sigC' = 1
    /\ UNCHANGED <<joinSession, envArg, localEnv, termSize, spc, ns, serverSession,
                   setenvCalls, stdout, shellResult, closer, remoteParams, lpc,
                   currentSize, prevSess, siteClient, sent, nRemote>>

\* another party of the session changes its terminal parameters
RemoteResize ==
    /\ spc \in {"allocated", "shellDone"}
    /\ Alive
    /\ nRemote < MaxRemote
    /\ \E s \in Sizes : /\ ParamsOf(s) # remoteParams
                        /\ remoteParams' = ParamsOf(s)
    /\ nRemote' = nRemote + 1
    /\ UNCHANGED <<joinSession, envArg, localEnv, termSize, spc, ns, serverSession,
                   setenvCalls, stdout, shellResult, closer, lpc, currentSize,
                   prevSess, siteClient, sigC, sent, nSignals>>

\* ------------------------------------------------------------------ updateTerminalSize
\* signal.Notify(sigC, syscall.SIGWINCH); currentSize, _ := term.GetWinsize(0)
LoopSubscribe ==
    /\ lpc = "init"
    /\ \E winOk \in BOOLEAN : currentSize' = IF winOk THEN termSize ELSE ZeroSize
    /\ lpc' = "connect"
    /\ UNCHANGED <<joinSession, envArg, localEnv, termSize, spc, ns, serverSession,
                   setenvCalls, stdout, shellResult, closer, remoteParams, prevSess,
                   siteClient, sigC, sent, nSignals, nRemote>>

\* siteClient, err := ns.nodeClient.Proxy.ConnectToSite(); the error is only
\* logged, and siteClient is then a nil interface; time.NewTicker
LoopConnect ==
    /\ lpc = "connect"
    /\ \E ok \in BOOLEAN : siteClient' = IF ok THEN "ok" ELSE "nil"
    /\ lpc' = "select"
    /\ UNCHANGED <<joinSession, envArg, localEnv, termSize, spc, ns, serverSession,
                   setenvCalls, stdout, shellResult, closer, remoteParams, currentSize,
                   prevSess, sigC, sent, nSignals, nRemote>>

\* sshutils.WinChangeReqParams{W: winSize.Width, H: winSize.Height}
WinChangeReqParams(ws) == [W |-> ws.Width, H |-> ws.Height]

\* a loop that sends whatever size it reads
SignalIgnoredNever(winSize, cur) == FALSE

\* "it's the result of our own size change": the signal is ignored
SignalIgnored(winSize, cur) ==
    winSize.Height = cur.Height /\ winSize.Width = cur.Width

\* case sig := <-sigC
SignalBranch ==
    /\ lpc = "select"
    /\ sigC = 1
    /\ sigC' = 0
    /\ \E winOk \in BOOLEAN :
         IF ~winOk
         THEN UNCHANGED sent
         ELSE IF SignalIgnored(termSize, currentSize)
         THEN UNCHANGED sent
         ELSE sent' = Append(sent, WinChangeReqParams(termSize))
    /\ UNCHANGED <<joinSession, envArg, localEnv, termSize, spc, ns, serverSession,
                   setenvCalls, stdout, shellResult, closer, remoteParams, lpc,
                   currentSize, prevSess, siteClient, nSignals, nRemote>>

\* a loop that never finds the remote parameters unchanged
NothingChangedNever(prev, sess) == FALSE

\* "nothing changed": the parameters are those of the previous tick
NothingChanged(prev, sess) ==
    /\ prev.TerminalParams.W = sess.TerminalParams.W
    /\ prev.TerminalParams.H = sess.TerminalParams.H

\* case <-tick.C: the ticker of defaults.SessionRefreshPeriod has fired and
\* the select takes the tick. reply is what siteClient.GetSession returns,
\* winOk and setOk whether term.GetWinsize and term.SetWinsize succeed
Tick(reply, winOk, setOk) ==
    /\ lpc = "select"
    /\ IF siteClient = "nil"
       THEN \* siteClient.GetSession on a nil interface: the program panics
            /\ lpc' = "panicked"
            /\ UNCHANGED <<termSize, stdout, currentSize, prevSess, sigC>>
       ELSE /\ lpc' = lpc
            /\ LET sess == IF reply = "nil" THEN NoSession
                           ELSE SessionOf(ns.id, remoteParams)
                   newSize == ParamsWinsize(sess.TerminalParams)
                   cur == IF winOk THEN termSize ELSE ZeroSize
               IN  IF reply = "err"
                   THEN UNCHANGED <<termSize, stdout, currentSize, prevSess, sigC>>
                   ELSE IF prevSess = NoSession \/ sess = NoSession
                   THEN /\ prevSess' = sess
                        /\ UNCHANGED <<termSize, stdout, currentSize, sigC>>
                   ELSE IF NothingChanged(prevSess, sess)
                   THEN UNCHANGED <<termSize, stdout, currentSize, prevSess, sigC>>
                   ELSE /\ currentSize' = cur
                        /\ IF cur.Width # newSize.Width \/ cur.Height # newSize.Height
                           THEN /\ termSize' = IF setOk THEN newSize ELSE termSize
                                /\ sigC' = IF setOk /\ newSize # termSize
                                           THEN 1 ELSE sigC
                                /\ stdout' = Append(stdout, ResizeEscape(newSize))
                           ELSE UNCHANGED <<termSize, stdout, sigC>>
                        /\ prevSess' = sess
    /\ UNCHANGED <<joinSession, envArg, localEnv, spc, ns, serverSession, setenvCalls,
                   shellResult, closer, remoteParams, siteClient, sent, nSignals, nRemote>>

\* the tick gets as far as term.GetWinsize (line 478)
TickReadsSize(reply) ==
    /\ siteClient # "nil"
    /\ reply = "sess"
    /\ prevSess # NoSession
    /\ ~NothingChanged(prevSess, SessionOf(ns.id, remoteParams))

\* the outcomes of the tick: those of the calls it gets to make
TickBranch ==
    \E reply \in {"err", "nil", "sess"} :
        \E winOk \in (IF TickReadsSize(reply) THEN BOOLEAN ELSE {TRUE}) :
            \E setOk \in (IF TickReadsSize(reply) THEN BOOLEAN ELSE {TRUE}) :
                Tick(reply, winOk, setOk)

\* a loop whose close case goes round again
AfterCloseStay == "select"

\* case <-closer.C: return
AfterClose == "exited"

CloseBranch ==
    /\ lpc = "select"
    /\ closer = "closed"
    /\ lpc' = AfterClose
    /\ UNCHANGED <<joinSession, envArg, localEnv, termSize, spc, ns, serverSession,
                   setenvCalls, stdout, shellResult, closer, remoteParams, currentSize,
                   prevSess, siteClient, sigC, sent, nSignals, nRemote>>

SessionNext ==
    \/ NewSession /\ UNCHANGED <<connectVars, forwardVars, siteVars, scpVars>>
    \/ AllocateTerminal /\ UNCHANGED <<connectVars, forwardVars, siteVars, scpVars>>
    \/ StartShell /\ UNCHANGED <<connectVars, forwardVars, siteVars, scpVars>>
    \/ ClosePipe /\ UNCHANGED <<connectVars, forwardVars, siteVars, scpVars>>
    \/ ServerCloses /\ UNCHANGED <<connectVars, forwardVars, siteVars, scpVars>>
    \/ UserResize /\ UNCHANGED <<connectVars, forwardVars, siteVars, scpVars>>
    \/ SpuriousSignal /\ UNCHANGED <<connectVars, forwardVars, siteVars, scpVars>>
    \/ RemoteResize /\ UNCHANGED <<connectVars, forwardVars, siteVars, scpVars>>
    \/ LoopSubscribe /\ UNCHANGED <<connectVars, forwardVars, siteVars, scpVars>>
    \/ LoopConnect /\ UNCHANGED <<connectVars, forwardVars, siteVars, scpVars>>
    \/ SignalBranch /\ UNCHANGED <<connectVars, forwardVars, siteVars, scpVars>>
    \/ TickBranch /\ UNCHANGED <<connectVars, forwardVars, siteVars, scpVars>>
    \/ CloseBranch /\ UNCHANGED <<connectVars, forwardVars, siteVars, scpVars>>

SessionSpec == SessionInit /\ [][SessionNext]_vars

\* the fairness of the resize loop: the goroutine is scheduled, so it gets
\* from its start to the select; and a select picks among its ready cases at
\* random, so a case that stays ready is taken in the end
SessionFairness ==
    /\ WF_vars(LoopSubscribe /\ UNCHANGED <<connectVars, forwardVars, siteVars, scpVars>>)
    /\ WF_vars(LoopConnect /\ UNCHANGED <<connectVars, forwardVars, siteVars, scpVars>>)
    /\ WF_vars(CloseBranch /\ UNCHANGED <<connectVars, forwardVars, siteVars, scpVars>>)

FairSessionSpec == SessionSpec /\ SessionFairness

\* the ticker keeps firing, the select takes the tick in the end, and the
\* queries and the terminal calls of the tick succeed
TickFairness ==
    WF_vars(Tick("sess", TRUE, TRUE)
                /\ UNCHANGED <<connectVars, forwardVars, siteVars, scpVars>>)

TickingSessionSpec == SessionSpec /\ SessionFairness /\ TickFairness

\* ------------------------------------------------------------------ claims about the session
\* C5: a window-change request never carries the size of the request sent
\* just before it: a signal that reads the size last sent sends nothing.
C5_NoRepeatedRequest ==
    \A i \in 1..(Len(sent) - 1) : sent[i] # sent[i + 1]

\* the session was created: newSession returned it
Created == spc \notin {"start", "failed"}

\* ESC[8;<rows>;<cols>t for the sizes of the model, written out
EscapeText(ws) ==
    IF ws = Winsize(120, 40)
    THEN <<"ESC", "[", "8", ";", "4", "0", ";", "1", "2", "0", "t">>
    ELSE <<"ESC", "[", "8", ";", "2", "5", ";", "8", "0", "t">>

\* C8: a session created by a join has the joined session's identifier, not
\* a generated one, and its terminal size, and with an attached terminal
\* ESC[8;<height>;<width>t was written locally; a session created without a
\* join has a generated identifier; and no later step changes the identifier.
C8_JoinAdoptsIdentity ==
    /\ [](Created /\ joinSession # NoSession
            => /\ ns.id = joinSession.ID
               /\ ns.id \notin FreshIDs
               /\ ns.terminalSize.Width = joinSession.TerminalParams.W
               /\ ns.terminalSize.Height = joinSession.TerminalParams.H
               /\ ns.attachedTerm
                    => /\ Len(stdout) >= 1
                       /\ stdout[1] = EscapeText(ns.terminalSize))
    /\ [](Created /\ joinSession = NoSession => ns.id \in FreshIDs)
    /\ [][Created => ns'.id = ns.id]_vars

C8_Witness ==
    /\ joinSession = SessionOf("joined", TerminalParams(120, 40))
    /\ ns.attachedTerm
    /\ ns.id = "joined"
    /\ stdout[1] = <<"ESC", "[", "8", ";", "4", "0", ";", "1", "2", "0", "t">>
    /\ lpc = "exited"
    /\ Len(sent) > 0

\* the position of the first Setenv call for key k, 0 when there is none
FirstCall(k) ==
    IF \E i \in 1..Len(setenvCalls) : setenvCalls[i][1] = k
    THEN CHOOSE i \in 1..Len(setenvCalls) :
            /\ setenvCalls[i][1] = k
            /\ \A j \in 1..(i - 1) : setenvCalls[j][1] # k
    ELSE 0

\* C17: every successful creation, new or join, with a caller's environment
\* or with none, applies the session-identifier variable with the session's
\* identifier to the server-side session, and applies LANG and LANGUAGE before
\* the caller's entries.
C17_SessionVarApplied ==
    Created =>
        /\ \E i \in 1..Len(setenvCalls) : setenvCalls[i] = <<SessionEnvVar, ns.id>>
        /\ \A k \in CallerKeys, l \in {"LANG", "LANGUAGE"} :
              FirstCall(k) # 0 /\ FirstCall(l) # 0 => FirstCall(l) < FirstCall(k)

\* C15: a change of the local terminal size that the resize loop itself made
\* causes no window-change request: as long as every window-size-changed
\* signal came from the loop's own resizes, nothing has been sent.
C15_OwnResizeNotSent == nSignals = 0 => sent = <<>>

\* the resize loop was started and has not returned
LoopRunning == lpc \in {"init", "connect", "select"}

\* C13: if another party changes the session's terminal parameters to a size
\* S that is not the local terminal's, and they stay S, the resize loop
\* resizes the local terminal to S in the end, whenever the change happens,
\* before the loop's first tick included.
C13_RemoteSizeConverges ==
    \A s \in Sizes :
        (nRemote > 0 /\ remoteParams = ParamsOf(s) /\ termSize # s /\ LoopRunning)
            ~> (termSize = s \/ remoteParams # ParamsOf(s) \/ ~LoopRunning)

\* C14: a tick whose query succeeds resizes the local terminal to the remote
\* parameters and writes ESC[8;<rows>;<cols>t for them if and only if the
\* remote parameters differ from those of the previous tick and from the
\* local terminal size the tick reads; any other tick, one whose query failed
\* included, leaves the local terminal size alone and writes nothing.
C14_TickResizes ==
    [][TickBranch =>
        LET newSize == ParamsWinsize(remoteParams)
            observed == prevSess' = SessionOf(ns.id, remoteParams)
            differs == /\ prevSess # NoSession
                       /\ prevSess.TerminalParams # remoteParams
                       /\ currentSize' # newSize
        IN  IF observed /\ differs
            THEN /\ stdout' = Append(stdout, EscapeText(newSize))
                 /\ termSize' \in {termSize, newSize}
            ELSE /\ stdout' = stdout
                 /\ termSize' = termSize]_vars

\* a tick has resized the local terminal from 80x25 to the 120x40 of another party
C14_Witness ==
    /\ joinSession = NoSession
    /\ nSignals = 0
    /\ nRemote = 1
    /\ remoteParams = TerminalParams(120, 40)
    /\ prevSess # NoSession
    /\ prevSess.TerminalParams = remoteParams
    /\ currentSize = Winsize(80, 25)
    /\ termSize = Winsize(120, 40)
    /\ stdout = <<<<"ESC", "[", "8", ";", "4", "0", ";", "1", "2", "0", "t">>>>

\* C16: when the server-side session closes, the resize loop exits in the
\* end, whether or not a caller closes the stream.
C16_ServerCloseStopsLoop ==
    (serverSession = "closed" /\ LoopRunning) ~> ~LoopRunning

\* C19: when Shell returns an error for a session with an attached terminal,
\* the resize loop started by allocateTerminal does not keep running.
C19_FailedShellStopsLoop ==
    (shellResult = "error" /\ ns.attachedTerm /\ LoopRunning) ~> ~LoopRunning

\* C10: once the closer is closed the resize loop ends, whatever signals and
\* ticks arrive, and after it has returned no window-change request is
\* sent and nothing is written to the local terminal.
C10_CloseStopsLoop ==
    /\ (closer = "closed" /\ lpc # "off") ~> (lpc \in {"exited", "panicked"})
    /\ [][lpc = "exited" => sent' = sent /\ stdout' = stdout /\ lpc' = "exited"]_vars

C10_Witness ==
    /\ closer = "closed"
    /\ lpc = "exited"
    /\ sigC = 1
    /\ termSize # currentSize

\* ------------------------------------------------------------------ listenAndForward
\* the dial loop: for attempt := 1; attempt <= 5; attempt++
MaxAttempts == 5

\* a backoff that does not grow with the attempt
BackoffFlat(a) == 100

\* time.Sleep(time.Millisecond * time.Duration(100*attempt)), in milliseconds
BackoffMs(a) == 100 * a

\* a relay that goes on after the first of its two copies has finished
WaitedForFirst(c) == doneC[c] >= 1

\* <-doneC twice: both copies have reported
WaitedFor(c) == doneC[c] >= 2

\* a return that leaves the incoming connection open
IncomingLeftOpen == "open"

\* defer incoming.Close()
IncomingAfterReturn == "closed"

ForwardInit ==
    /\ ConnectIdle
    /\ SessionIdle
    /\ SiteIdle
    /\ ScpIdle
    /\ ForwardIdle

\* incoming, err := socket.Accept(); go proxyConnection(incoming)
Accept(c) ==
    /\ apc = "accept"
    /\ socket = "open"
    /\ fpc[c] = "idle"
    /\ \A d \in 1..(c - 1) : fpc[d] # "idle"
    /\ fpc' = [fpc EXCEPT ![c] = "dial"]
    /\ incoming' = [incoming EXCEPT ![c] = "open"]
    /\ attempt' = [attempt EXCEPT ![c] = 1]
    /\ UNCHANGED <<apc, socket, nodeClient, dials, slept, dialErr, conn, copyDown, copyUp, doneC>>

\* socket.Accept() fails: the loop breaks, and the deferred client.Close() and
\* socket.Close() run
AcceptFails ==
    /\ apc = "accept"
    /\ apc' = "done"
    /\ nodeClient' = "closed"
    /\ socket' = "closed"
    /\ UNCHANGED <<fpc, attempt, dials, slept, dialErr, incoming, conn, copyDown, copyUp, doneC>>

\* where a failed attempt leaves the task: attempt++ and the loop's test
AfterFailedAttempt(a) == IF a + 1 <= MaxAttempts THEN "dial" ELSE "check"

\* one turn of the dial loop: conn, err = client.Client.Dial("tcp", remoteAddr);
\* on success break; on failure time.Sleep(...), continue
Dial(c) ==
    /\ fpc[c] = "dial"
    /\ dials' = [dials EXCEPT ![c] = @ + 1]
    /\ \E ok \in {b \in BOOLEAN : nodeClient = "open" \/ ~b} :
         IF ok
         THEN /\ dialErr' = [dialErr EXCEPT ![c] = FALSE]
              /\ conn' = [conn EXCEPT ![c] = "open"]
              /\ fpc' = [fpc EXCEPT ![c] = "check"]
              /\ UNCHANGED <<slept, attempt>>
         ELSE /\ dialErr' = [dialErr EXCEPT ![c] = TRUE]
              /\ slept' = [slept EXCEPT ![c] = @ + BackoffMs(attempt[c])]
              /\ attempt' = [attempt EXCEPT ![c] = @ + 1]
              /\ fpc' = [fpc EXCEPT ![c] = AfterFailedAttempt(attempt[c])]
              /\ UNCHANGED conn
    /\ UNCHANGED <<apc, socket, nodeClient, incoming, copyDown, copyUp, doneC>>

\* "permanent failure establishing connection": if err != nil, return
Abandon(c) ==
    /\ fpc[c] = "check"
    /\ dialErr[c]
    /\ incoming' = [incoming EXCEPT ![c] = IncomingAfterReturn]
    /\ fpc' = [fpc EXCEPT ![c] = "abandoned"]
    /\ UNCHANGED <<apc, socket, nodeClient, attempt, dials, slept, dialErr, conn,
                   copyDown, copyUp, doneC>>

\* defer conn.Close(); the two "go func() { io.Copy(...); doneC <- true }()"
StartCopies(c) ==
    /\ fpc[c] = "check"
    /\ ~dialErr[c]
    /\ copyDown' = [copyDown EXCEPT ![c] = "running"]
    /\ copyUp' = [copyUp EXCEPT ![c] = "running"]
    /\ fpc' = [fpc EXCEPT ![c] = "relay"]
    /\ UNCHANGED <<apc, socket, nodeClient, attempt, dials, slept, dialErr, incoming,
                   conn, doneC>>

\* io.Copy(incoming, conn) returns at the end of conn: the remote side closed
\* it, or the client it is a channel of was closed; doneC <- true
CopyDownEnds(c) ==
    /\ copyDown[c] = "running"
    /\ copyDown' = [copyDown EXCEPT ![c] = "eof"]
    /\ doneC' = [doneC EXCEPT ![c] = @ + 1]
    /\ UNCHANGED <<apc, socket, nodeClient, fpc, attempt, dials, slept, dialErr,
                   incoming, conn, copyUp>>

\* io.Copy(incoming, conn) returns on a failed write: the remote side sent
\* data and the local side is gone; doneC <- true
CopyDownWriteFails(c) ==
    /\ copyDown[c] = "running"
    /\ copyUp[c] = "eof"
    /\ copyDown' = [copyDown EXCEPT ![c] = "failed"]
    /\ doneC' = [doneC EXCEPT ![c] = @ + 1]
    /\ UNCHANGED <<apc, socket, nodeClient, fpc, attempt, dials, slept, dialErr,
                   incoming, conn, copyUp>>

\* io.Copy(conn, incoming) returns at the end of incoming: the local side
\* closed it; doneC <- true
CopyUpEnds(c) ==
    /\ copyUp[c] = "running"
    /\ copyUp' = [copyUp EXCEPT ![c] = "eof"]
    /\ doneC' = [doneC EXCEPT ![c] = @ + 1]
    /\ UNCHANGED <<apc, socket, nodeClient, fpc, attempt, dials, slept, dialErr,
                   incoming, conn, copyDown>>

\* io.Copy(conn, incoming) returns on a failed write: the local side sent
\* data and the remote side, or the client, is gone; doneC <- true
CopyUpWriteFails(c) ==
    /\ copyUp[c] = "running"
    /\ copyDown[c] = "eof" \/ nodeClient = "closed"
    /\ copyUp' = [copyUp EXCEPT ![c] = "failed"]
    /\ doneC' = [doneC EXCEPT ![c] = @ + 1]
    /\ UNCHANGED <<apc, socket, nodeClient, fpc, attempt, dials, slept, dialErr,
                   incoming, conn, copyDown>>

\* <-doneC; <-doneC; return: the deferred conn.Close() and incoming.Close()
Finish(c) ==
    /\ fpc[c] = "relay"
    /\ WaitedFor(c)
    /\ conn' = [conn EXCEPT ![c] = "closed"]
    /\ incoming' = [incoming EXCEPT ![c] = IncomingAfterReturn]
    /\ fpc' = [fpc EXCEPT ![c] = "finished"]
    /\ UNCHANGED <<apc, socket, nodeClient, attempt, dials, slept, dialErr, copyDown, copyUp, doneC>>

ForwardNext ==
    \/ \E c \in Conns : Accept(c) /\ UNCHANGED <<connectVars, sessionVars, siteVars, scpVars>>
    \/ AcceptFails /\ UNCHANGED <<connectVars, sessionVars, siteVars, scpVars>>
    \/ \E c \in Conns : Dial(c) /\ UNCHANGED <<connectVars, sessionVars, siteVars, scpVars>>
    \/ \E c \in Conns : Abandon(c) /\ UNCHANGED <<connectVars, sessionVars, siteVars, scpVars>>
    \/ \E c \in Conns : StartCopies(c) /\ UNCHANGED <<connectVars, sessionVars, siteVars, scpVars>>
    \/ \E c \in Conns : CopyDownEnds(c) /\ UNCHANGED <<connectVars, sessionVars, siteVars, scpVars>>
    \/ \E c \in Conns : CopyDownWriteFails(c) /\ UNCHANGED <<connectVars, sessionVars, siteVars, scpVars>>
    \/ \E c \in Conns : CopyUpEnds(c) /\ UNCHANGED <<connectVars, sessionVars, siteVars, scpVars>>
    \/ \E c \in Conns : CopyUpWriteFails(c) /\ UNCHANGED <<connectVars, sessionVars, siteVars, scpVars>>
    \/ \E c \in Conns : Finish(c) /\ UNCHANGED <<connectVars, sessionVars, siteVars, scpVars>>

ForwardSpec == ForwardInit /\ [][ForwardNext]_vars

\* the fairness of a proxyConnection goroutine: it is scheduled, so each step
\* of its own that can be taken is taken, and a dialed connection ends once
\* the client it is a channel of is closed; when the peers end or send is theirs
ForwardFairness ==
    \A c \in Conns :
        /\ WF_vars(nodeClient = "closed" /\ CopyDownEnds(c)
                      /\ UNCHANGED <<connectVars, sessionVars, siteVars, scpVars>>)
        /\ WF_vars(Dial(c) /\ UNCHANGED <<connectVars, sessionVars, siteVars, scpVars>>)
        /\ WF_vars(Abandon(c) /\ UNCHANGED <<connectVars, sessionVars, siteVars, scpVars>>)
        /\ WF_vars(StartCopies(c) /\ UNCHANGED <<connectVars, sessionVars, siteVars, scpVars>>)
        /\ WF_vars(Finish(c) /\ UNCHANGED <<connectVars, sessionVars, siteVars, scpVars>>)

FairForwardSpec == ForwardSpec /\ ForwardFairness

\* ------------------------------------------------------------------ claims about listenAndForward
\* the dial of connection c succeeded
Established(c) == conn[c] # "none"

\* the milliseconds waited in all after failed attempts 1..k: 100 + 200 + ... + 100k
RECURSIVE WaitedAfter(_)
WaitedAfter(k) == IF k = 0 THEN 0 ELSE WaitedAfter(k - 1) + 100 * k

\* C6: a connection is dialed at most 5 times, one attempt after the other,
\* and never again after a success; the task has slept 100*k ms after each
\* failed attempt k. A connection given up was dialed exactly 5 times; one
\* that succeeded on attempt 5 had slept 100+200+300+400 ms before it.
C6_DialRetry ==
    \A c \in Conns :
       /\ dials[c] <= 5
       /\ fpc[c] = "dial" => dials[c] = attempt[c] - 1 /\ slept[c] = WaitedAfter(dials[c])
       /\ Established(c)
             => /\ dials[c] \in 1..5
                /\ ~dialErr[c]
                /\ slept[c] = WaitedAfter(dials[c] - 1)
                /\ dials[c] = 5 => slept[c] >= 100 + 200 + 300 + 400
       /\ fpc[c] = "abandoned" => dials[c] = 5 /\ ~Established(c)
       /\ fpc[c] \in {"relay", "finished"} => Established(c)

C6_Witness ==
    /\ fpc[1] = "relay"
    /\ dials[1] = 5
    /\ slept[1] = 1000
    /\ fpc[2] = "abandoned"
    /\ dials[2] = 5

\* everything the model holds about connection c
ConnState(c) ==
    <<fpc[c], attempt[c], dials[c], slept[c], dialErr[c], incoming[c], conn[c],
      copyDown[c], copyUp[c], doneC[c]>>

\* C7: a connection whose 5 dials all failed is given up alone: its incoming
\* connection is closed; the step that gives it up leaves the listener, the
\* accept loop, the NodeClient and every other connection as they were; and
\* while Accept has not failed the listener and the NodeClient are open.
C7_AbandonedAlone ==
    /\ [](\A c \in Conns :
            fpc[c] = "abandoned"
               => /\ incoming[c] = "closed"
                  /\ dials[c] = 5
                  /\ dialErr[c])
    /\ [](apc = "accept" => socket = "open" /\ nodeClient = "open")
    /\ [][\A c \in Conns :
            (fpc[c] # "abandoned" /\ fpc'[c] = "abandoned")
               => /\ socket' = socket
                  /\ nodeClient' = nodeClient
                  /\ apc' = apc
                  /\ \A d \in Conns \ {c} : ConnState(d)' = ConnState(d)]_vars

C7_Witness ==
    /\ fpc[1] = "abandoned"
    /\ incoming[1] = "closed"
    /\ apc = "accept"
    /\ socket = "open"
    /\ nodeClient = "open"
    /\ fpc[2] = "relay"
    /\ dials[2] = 1
    /\ incoming[2] = "open"

CopyDone(x) == x \in {"eof", "failed"}

\* C9: of a connection whose dial succeeded, neither incoming nor conn is
\* closed by the relay before both copies have returned.
C9_BothCopiesFirst ==
    \A c \in Conns :
       (Established(c) /\ (incoming[c] = "closed" \/ conn[c] = "closed"))
          => CopyDone(copyDown[c]) /\ CopyDone(copyUp[c])

C9_Witness ==
    /\ fpc[1] = "relay"
    /\ copyUp[1] = "eof"
    /\ copyDown[1] = "running"
    /\ incoming[1] = "open"
    /\ conn[1] = "open"

\* C18: once either side of a forwarded connection has closed, its relay
\* task finishes and closes both ends in the end, even if the other side
\* sends nothing more and never closes.
C18_EitherCloseFinishes ==
    \A c \in Conns :
        (copyDown[c] = "eof" \/ copyUp[c] = "eof")
            ~> (fpc[c] = "finished" /\ conn[c] = "closed" /\ incoming[c] = "closed")

\* ------------------------------------------------------------------ getSite
\* most records in the proxy's site list
MaxSites == 2

SiteNames == {"east", "west"}

\* services.Site: a name and the fields beside it
Site(name, status) == [Name |-> name, Status |-> status]

SiteRecords == {Site(n, st) : n \in SiteNames, st \in {"online", "offline"}}

SiteLists == UNION {[1..n -> SiteRecords] : n \in 0..MaxSites}

\* proxy.siteName: empty, a listed name, or a name no site has
RequestedNames == {""} \cup SiteNames \cup {"north"}

\* how GetSites ends: with the list, or at the step of it that fails
FetchOutcomes ==
    {"ok", "NewSession", "StdoutPipe", "RequestSubsystem", "timeout", "Unmarshal"}

SiteFound(site) == [kind |-> "site", site |-> site]

NotFound(msg) == [kind |-> "NotFound", msg |-> msg]

SiteError(cause) == [kind |-> "error", cause |-> cause]

\* the position of the last record named name (a loop that does not stop at the
\* first match)
LastNamed(ss, name) ==
    CHOOSE i \in 1..Len(ss) :
        /\ ss[i].Name = name
        /\ \A j \in (i + 1)..Len(ss) : ss[j].Name # name

\* the loop of getSite: the position of the first record named name
FirstNamed(ss, name) ==
    CHOOSE i \in 1..Len(ss) :
        /\ ss[i].Name = name
        /\ \A j \in 1..(i - 1) : ss[j].Name # name

\* getSite once GetSites has returned the list ss
SelectSite(ss, name) ==
    IF Len(ss) = 0
    THEN NotFound(<<"no sites registered">>)
    ELSE IF name = ""
    THEN SiteFound(ss[1])
    ELSE IF \E i \in 1..Len(ss) : ss[i].Name = name
    THEN SiteFound(ss[FirstNamed(ss, name)])
    ELSE NotFound(<<"site", name, "not found">>)

SiteInit ==
    /\ ConnectIdle
    /\ SessionIdle
    /\ ForwardIdle
    /\ ScpIdle
    /\ siteName \in RequestedNames
    /\ listed \in SiteLists
    /\ fetchOutcome \in FetchOutcomes
    /\ gpc = "fetch"
    /\ sites = <<>>
    /\ sitesErr = ""
    /\ siteResult = NoSiteResult

\* proxy.GetSites(): the list the subsystem wrote, or nil and an error
GetSites ==
    /\ gpc = "fetch"
    /\ gpc' = "select"
    /\ IF fetchOutcome = "ok"
       THEN sites' = listed /\ sitesErr' = ""
       ELSE sites' = <<>> /\ sitesErr' = fetchOutcome
    /\ UNCHANGED <<siteName, listed, fetchOutcome, siteResult>>

\* the rest of getSite
GetSite ==
    /\ gpc = "select"
    /\ gpc' = "done"
    /\ siteResult' = IF sitesErr # ""
                     THEN SiteError(sitesErr)
                     ELSE SelectSite(sites, siteName)
    /\ UNCHANGED <<siteName, listed, fetchOutcome, sites, sitesErr>>

SiteNext ==
    \/ GetSites /\ UNCHANGED <<connectVars, sessionVars, forwardVars, scpVars>>
    \/ GetSite /\ UNCHANGED <<connectVars, sessionVars, forwardVars, scpVars>>

SiteSpec == SiteInit /\ [][SiteNext]_vars

\* ------------------------------------------------------------------ claims: getSite
Returned == gpc = "done"

NamesListed == {listed[i].Name : i \in 1..Len(listed)}

\* C12: getSite returns NotFound whenever the fetched list is empty, whatever
\* name was requested; on a non-empty list with no name requested it returns
\* the first listed record; with a name requested it returns the first record
\* in list order whose name equals it, or NotFound naming the requested name
\* when there is none; a failure of GetSites is returned and no record is.
C12_SelectSite ==
    Returned =>
        IF fetchOutcome # "ok"
        THEN siteResult = SiteError(fetchOutcome)
        ELSE IF listed = <<>>
        THEN siteResult.kind = "NotFound"
        ELSE IF siteName = ""
        THEN siteResult = SiteFound(listed[1])
        ELSE IF siteName \in NamesListed
        THEN \E i \in 1..Len(listed) :
                /\ listed[i].Name = siteName
                /\ \A j \in 1..(i - 1) : listed[j].Name # siteName
                /\ siteResult = SiteFound(listed[i])
        ELSE /\ siteResult.kind = "NotFound"
             /\ \E k \in 1..Len(siteResult.msg) : siteResult.msg[k] = siteName

\* two records carry the requested name and differ beside it: the first was returned
C12_Witness ==
    /\ Returned
    /\ fetchOutcome = "ok"
    /\ siteName = "west"
    /\ listed = <<Site("west", "offline"), Site("west", "online")>>
    /\ siteResult = SiteFound(Site("west", "offline"))

\* ------------------------------------------------------------------ scp
RemotePath == "/remote/path"

\* the command line Upload (lines 538-542) and Download (557-561) build
ShellCmdOf(dir, recursive) ==
    <<"/usr/bin/scp", IF dir = "upload" THEN "-t" ELSE "-f">>
        \o (IF recursive THEN <<"-r">> ELSE <<>>)
        \o <<RemotePath>>

\* the steps before the goroutine starts that can fail; Upload alone opens
\* and stats a local file
SetupOutcomes(dir) ==
    {"ok", "NewSession", "StdinPipe", "StdoutPipe"}
        \cup (IF dir = "upload" THEN {"Open", "Stat"} ELSE {})

\* what scpCommand.Execute returns: nil, io.EOF or another error
ExecuteResults == {"", "EOF", "ProtocolError"}

\* what session.Run returns: nil or the remote command's exit error
RunResults == {"", "ExitError"}

IsEOF(x) == x = "EOF"

ScpInit ==
    /\ ConnectIdle
    /\ SessionIdle
    /\ ForwardIdle
    /\ SiteIdle
    /\ direction \in {"upload", "download"}
    /\ isDir \in BOOLEAN
    /\ setupOutcome \in SetupOutcomes(direction)
    /\ executeResult \in ExecuteResults
    /\ runResult \in RunResults
    /\ shellCmd = <<>>
    /\ mpc = "start"
    /\ tpc = "off"
    /\ scpErr = ""
    /\ errSeen = ""
    /\ runErr = ""
    /\ stdinPipe = "none"
    /\ scpSession = "none"
    /\ closeC = "open"
    /\ finished = <<>>
    /\ scpResult = "none"

\* Upload or Download up to its call of scp, and scp up to the go statement:
\* a failure returns at once, the session (if opened) closed by the defer
StartTransfer ==
    /\ mpc = "start"
    /\ IF setupOutcome \in {"Open", "Stat"}
       THEN /\ mpc' = "done"
            /\ scpResult' = setupOutcome
            /\ UNCHANGED <<shellCmd, scpSession, stdinPipe, tpc>>
       ELSE /\ shellCmd' = ShellCmdOf(direction, isDir)
            /\ IF setupOutcome = "NewSession"
               THEN /\ mpc' = "done"
                    /\ scpResult' = setupOutcome
                    /\ UNCHANGED <<scpSession, stdinPipe, tpc>>
               ELSE IF setupOutcome \in {"StdinPipe", "StdoutPipe"}
               THEN /\ mpc' = "done"
                    /\ scpResult' = setupOutcome
                    /\ scpSession' = "closed"
                    /\ stdinPipe' = IF setupOutcome = "StdoutPipe"
                                    THEN "open" ELSE "none"
                    /\ UNCHANGED tpc
               ELSE /\ mpc' = "run"
                    /\ tpc' = "execute"
                    /\ scpSession' = "open"
                    /\ stdinPipe' = "open"
                    /\ UNCHANGED scpResult
    /\ UNCHANGED <<direction, isDir, setupOutcome, executeResult, runResult,
                   scpErr, errSeen, runErr, closeC, finished>>

\* line 595 in the goroutine: scpCommand.Execute returns and its result is
\* stored in scp's err
TaskExecute ==
    /\ tpc = "execute"
    /\ tpc' = "closeStdin"
    /\ scpErr' = executeResult
    /\ finished' = Append(finished, "task")
    /\ UNCHANGED <<direction, isDir, setupOutcome, executeResult, runResult,
                   shellCmd, mpc, errSeen, runErr, stdinPipe, scpSession,
                   closeC, scpResult>>

\* line 598
TaskClosesStdin ==
    /\ tpc = "closeStdin"
    /\ tpc' = "closeC"
    /\ stdinPipe' = "closed"
    /\ UNCHANGED <<direction, isDir, setupOutcome, executeResult, runResult,
                   shellCmd, mpc, scpErr, errSeen, runErr, scpSession, closeC,
                   finished, scpResult>>

\* line 599
TaskClosesC ==
    /\ tpc = "closeC"
    /\ tpc' = "done"
    /\ closeC' = "closed"
    /\ UNCHANGED <<direction, isDir, setupOutcome, executeResult, runResult,
                   shellCmd, mpc, scpErr, errSeen, runErr, stdinPipe,
                   scpSession, finished, scpResult>>

\* line 602: session.Run returns when the remote command has ended
RunReturns ==
    /\ mpc = "run"
    /\ mpc' = "check"
    /\ runErr' = runResult
    /\ finished' = Append(finished, "run")
    /\ UNCHANGED <<direction, isDir, setupOutcome, executeResult, runResult,
                   shellCmd, tpc, scpErr, errSeen, stdinPipe, scpSession,
                   closeC, scpResult>>

\* line 603: the condition reads err, which the goroutine may write at any time
CheckErr ==
    /\ mpc = "check"
    /\ errSeen' = IF runErr # "" THEN scpErr ELSE errSeen
    /\ mpc' = IF runErr # "" /\ scpErr = "" THEN "assign" ELSE "wait"
    /\ UNCHANGED <<direction, isDir, setupOutcome, executeResult, runResult,
                   shellCmd, tpc, scpErr, runErr, stdinPipe, scpSession,
                   closeC, finished, scpResult>>

\* line 604
AssignErr ==
    /\ mpc = "assign"
    /\ mpc' = "wait"
    /\ scpErr' = runErr
    /\ UNCHANGED <<direction, isDir, setupOutcome, executeResult, runResult,
                   shellCmd, tpc, errSeen, runErr, stdinPipe, scpSession,
                   closeC, finished, scpResult>>

\* lines 607-610
ResultOf(x) == IF IsEOF(x) THEN "" ELSE x

\* lines 606-610 and the deferred session.Close()
ReceiveAndReturn ==
    /\ mpc = "wait"
    /\ closeC = "closed"
    /\ mpc' = "done"
    /\ scpResult' = ResultOf(scpErr)
    /\ scpSession' = "closed"
    /\ UNCHANGED <<direction, isDir, setupOutcome, executeResult, runResult,
                   shellCmd, tpc, scpErr, errSeen, runErr, stdinPipe, closeC,
                   finished>>

ScpNext ==
    \/ StartTransfer /\ UNCHANGED <<connectVars, sessionVars, forwardVars, siteVars>>
    \/ TaskExecute /\ UNCHANGED <<connectVars, sessionVars, forwardVars, siteVars>>
    \/ TaskClosesStdin /\ UNCHANGED <<connectVars, sessionVars, forwardVars, siteVars>>
    \/ TaskClosesC /\ UNCHANGED <<connectVars, sessionVars, forwardVars, siteVars>>
    \/ RunReturns /\ UNCHANGED <<connectVars, sessionVars, forwardVars, siteVars>>
    \/ CheckErr /\ UNCHANGED <<connectVars, sessionVars, forwardVars, siteVars>>
    \/ AssignErr /\ UNCHANGED <<connectVars, sessionVars, forwardVars, siteVars>>
    \/ ReceiveAndReturn /\ UNCHANGED <<connectVars, sessionVars, forwardVars, siteVars>>

ScpSpec == ScpInit /\ [][ScpNext]_vars

\* ------------------------------------------------------------------ claims: scp
\* scp returned after it had started the protocol task and the remote command
BridgeReturned == mpc = "done" /\ setupOutcome = "ok"

\* C11: whenever the local protocol task completes with end-of-stream, scp
\* returns success, whatever the remote command exits with and however the two
\* completions interleave.
C11_EndOfStreamIsSuccess ==
    BridgeReturned /\ executeResult = "EOF" => scpResult = ""

\* C20: the result of scp depends only on the pair of completion outcomes, not
\* on their order: when the remote command exits with an error and the protocol
\* task completes without one, scp returns the remote command's error; and scp
\* never returns before both have completed.
C20_OrderIndependent ==
    BridgeReturned =>
        /\ Len(finished) = 2
        /\ runResult = "ExitError" /\ executeResult = "" => scpResult = "ExitError"

====
